---- MODULE Spec2Model ----
(***************************************************************************)
(* State-machine model of SocketBridgeServer (src/src/server.ts).          *)
(*                                                                         *)
(* Node runs every handler of the server to completion on one event loop,  *)
(* so each handler is one atomic action: handleConnection, the 'message',  *)
(* 'pong' and 'close' handlers of a connection, the heartbeat timer's      *)
(* callback sendHeartbeats, and stop.  ws.close() only starts the closing  *)
(* handshake: the 'close' handler of that socket runs later, as an event   *)
(* of its own.                                                             *)
(*                                                                         *)
(* Time is read by the server only in sendHeartbeats (now - lastPing), so  *)
(* the clock `now` advances at the timer's ticks; the other handlers       *)
(* record the clock as it stands.                                          *)
(***************************************************************************)
EXTENDS Integers, Sequences, FiniteSets, TLC

(* ----------------------------- bounds --------------------------------- *)
\* Events the server handles in a run: handshakes, payloads, pongs, closes,
\* timer ticks and the call of stop.
MaxEvents == 5

(* ------------------------ values of the source ------------------------ *)
\* `undefined` for an optional number (an option left out, an env var unset).
Undefined == -1
\* Defaults of the constructor.
DefaultHeartbeatInterval == 30000
DefaultPingTimeout == 10000
\* Close codes.
CodeOrigin == 1003
CodeInvalidKey == 1008
CodeCapacity == 1013
\* The timeout close reusing the capacity code.
CodeTimeoutClash == CodeCapacity
CodeTimeout == 1001
\* ws.close() called without a code (stop).
NoCode == 0

\* Characters are one-letter strings; a string the code indexes is a sequence
\* of characters.  The empty sequence is the empty string, also standing for
\* an absent header or query parameter (both are falsy in the code).
Empty == <<>>

\* The sockets of a run: every handshake brings a new one.
Conn == 1..MaxEvents

VARIABLES
  \* configuration, fixed by the constructor
  apiKey, maxClients, maxMessageSize, validateOrigin, allowedOrigins,
  heartbeatInterval, pingTimeout, announceConnections,
  heartbeatSetup, \* what the constructor was given for the heartbeat
  \* server state
  clients, clientCounter, heartbeatTimer, stopped,
  \* clock
  now,
  \* the sockets: what the server did to each and what is in flight
  handshakes,     \* number of handshakes received so far
  readyState,     \* per socket: "NONE", "OPEN", "CLOSING", "CLOSED"
  listening,      \* sockets whose message/pong/close handlers are attached
  idOf,           \* per socket: the clientId its handlers captured (0: none)
  nameOf,         \* per socket: the client.name its handlers captured
  sent,           \* per socket: the frames passed to ws.send, in order
  closeCalls,     \* per socket: the codes passed to ws.close, in order
  hbLog,          \* per socket: pings sent, pongs handled, timeouts, in order
  throwing,       \* sockets whose ws.send throws
  \* the run so far
  events,         \* events handled
  ticks           \* timer ticks among them

cfgVars == <<apiKey, maxClients, maxMessageSize, validateOrigin, allowedOrigins,
             heartbeatInterval, pingTimeout, announceConnections, heartbeatSetup>>
srvVars == <<clients, clientCounter, heartbeatTimer, stopped>>
wsVars == <<handshakes, readyState, listening, idOf, nameOf, sent, closeCalls, hbLog,
            throwing>>
vars == <<cfgVars, srvVars, now, wsVars, events, ticks>>

(* ------------------------------ helpers ------------------------------- *)
\* JavaScript's a || b on numbers: a unless it is 0 or NaN/undefined.
OrElse(a, b) == IF a # 0 /\ a # Undefined THEN a ELSE b

Range(s) == {s[i] : i \in DOMAIN s}
Last(s) == s[Len(s)]

\* The sockets of the clients in the registry.
Members == {clients[i].ws : i \in DOMAIN clients}

(* ------------------------------ strings ------------------------------- *)
\* String.prototype.endsWith, startsWith, indexOf, lastIndexOf, substring.
EndsWith(s, t) ==
  /\ Len(t) <= Len(s)
  /\ SubSeq(s, Len(s) - Len(t) + 1, Len(s)) = t

StartsWith(s, t) ==
  /\ Len(t) <= Len(s)
  /\ SubSeq(s, 1, Len(t)) = t

\* Positions are 1-based here; 0 stands for JavaScript's -1 (not found).
IndexOf(s, ch) ==
  IF \E i \in DOMAIN s : s[i] = ch
  THEN CHOOSE i \in DOMAIN s : s[i] = ch /\ \A j \in 1..(i - 1) : s[j] # ch
  ELSE 0

LastIndexOf(s, ch) ==
  IF \E i \in DOMAIN s : s[i] = ch
  THEN CHOOSE i \in DOMAIN s : s[i] = ch /\ \A j \in (i + 1)..Len(s) : s[j] # ch
  ELSE 0

SubstringFrom(s, k) == SubSeq(s, k + 1, Len(s))

\* Decimal digits of a number, as in a template literal `${n}`.
DigitChars == <<"0", "1", "2", "3", "4", "5", "6", "7", "8", "9">>

RECURSIVE Digits(_)
Digits(n) ==
  IF n < 10 THEN <<DigitChars[n + 1]>>
  ELSE Digits(n \div 10) \o <<DigitChars[(n % 10) + 1]>>

(* ------------------------- payloads and frames ------------------------ *)
\* U+FFFD, what a UTF-8 decoder puts for a byte sequence that is not UTF-8.
Replacement == 65533

IsContinuation(b) == 128 <= b /\ b <= 191

\* Buffer.prototype.toString(): the bytes decoded as UTF-8 into code points.
\* One- and two-byte sequences are decoded; any other byte is malformed here
\* (the payloads of the model hold no lead byte of a longer sequence).
RECURSIVE Utf8Decode(_)
Utf8Decode(bytes) ==
  IF bytes = <<>> THEN <<>>
  ELSE LET b == Head(bytes) IN
    IF b < 128 THEN <<b>> \o Utf8Decode(Tail(bytes))
    ELSE IF /\ 194 <= b /\ b <= 223
            /\ Len(bytes) >= 2
            /\ IsContinuation(bytes[2])
         THEN <<(b - 192) * 64 + (bytes[2] - 128)>>
                \o Utf8Decode(SubSeq(bytes, 3, Len(bytes)))
         ELSE <<Replacement>> \o Utf8Decode(Tail(bytes))

\* ws.send(string): the text frame's bytes, the string encoded as UTF-8.
RECURSIVE Utf8Encode(_)
Utf8Encode(str) ==
  IF str = <<>> THEN <<>>
  ELSE LET c == Head(str) IN
    (IF c < 128 THEN <<c>>
     ELSE IF c < 2048 THEN <<192 + (c \div 64), 128 + (c % 64)>>
     ELSE <<224 + (c \div 4096), 128 + ((c \div 64) % 64), 128 + (c % 64)>>)
    \o Utf8Encode(Tail(str))

\* A relayed payload as passed to ws.send: the decoded string.
RelayedFrame(message) == [type |-> "data", message |-> message]

\* A SystemMessage as passed to ws.send (JSON.stringify of the record).
SystemMessage(message, timestamp) ==
  [type |-> "system", message |-> message, timestamp |-> timestamp]

\* The bytes a peer reads from a relayed frame.
WireBytes(frame) == Utf8Encode(frame.message)

Filler(n) == [i \in 1..n |-> 97]

\* Payloads a peer sends: "é", a byte that is no UTF-8, a payload of exactly
\* maxMessageSize bytes and one a byte longer.
Payloads == {<<195, 169>>, <<255>>, Filler(maxMessageSize), Filler(maxMessageSize + 1)}

(* ------------------------------ origins ------------------------------- *)
OriginExact == <<"x", ".", "c">>
OriginWildcard == <<"*", ".", "b", ".", "c">>
OriginSub == <<"a", ".", "b", ".", "c">>
OriginBare == <<"b", ".", "c">>
OriginEvil == <<"a", ".", "e", "b", ".", "c">>

\* Origin headers a handshake carries (Empty: no header).
Origins == {Empty, OriginExact, OriginSub, OriginBare, OriginEvil}

\* apiKey query parameters a handshake carries (Empty: none).
KeyGood == <<"k">>
KeyWrong == <<"w">>
Keys == {Empty, KeyGood, KeyWrong}

\* name query parameters a handshake carries (Empty: none).
Names == {Empty, <<"A">>}

WildcardMatch(allowedOrigin, origin) ==
  /\ StartsWith(allowedOrigin, <<"*", ".">>)
  /\ LET domain == SubstringFrom(allowedOrigin, 2) IN
       /\ EndsWith(origin, domain)
       /\ LastIndexOf(origin, ".") # IndexOf(origin, ".")

\* isOriginAllowed failing open: an empty list allows every origin.
isOriginAllowedFailOpen(origin) ==
  \/ Len(allowedOrigins) = 0
  \/ \E i \in DOMAIN allowedOrigins :
       \/ allowedOrigins[i] = origin
       \/ WildcardMatch(allowedOrigins[i], origin)

isOriginAllowed(origin) ==
  /\ Len(allowedOrigins) # 0
  /\ \E i \in DOMAIN allowedOrigins :
       \/ allowedOrigins[i] = origin
       \/ WildcardMatch(allowedOrigins[i], origin)

(* ----------------------------- constructor ---------------------------- *)
\* options.heartbeatInterval !== undefined ? options.heartbeatInterval
\*   : Number(process.env.SOCKET_BRIDGE_HEARTBEAT_INTERVAL) || 30000
\* (Number of an unset variable is NaN, here Undefined).
HeartbeatIntervalOf(option, env) ==
  IF option # Undefined THEN option ELSE OrElse(env, DefaultHeartbeatInterval)

PingTimeoutOf(option, env) ==
  IF option # Undefined THEN option ELSE OrElse(env, DefaultPingTimeout)

\* The heartbeat settings a server is constructed with:
\* <<options.heartbeatInterval, SOCKET_BRIDGE_HEARTBEAT_INTERVAL,
\*   options.pingTimeout, SOCKET_BRIDGE_PING_TIMEOUT>>.
HeartbeatSetups ==
  { <<100, Undefined, 50, Undefined>>,
    <<100, Undefined, 200, Undefined>>,
    <<0, Undefined, 50, Undefined>>,
    <<Undefined, 0, Undefined, Undefined>> }

\* <<validateOrigin, allowedOrigins>>.
OriginSetups ==
  { <<FALSE, <<>>>>, <<TRUE, <<>>>>, <<TRUE, <<OriginExact, OriginWildcard>>>> }

Constructed(key, limit, size, originSetup, hb, announce) ==
  /\ apiKey = key
  /\ maxClients = limit
  /\ maxMessageSize = size
  /\ validateOrigin = originSetup[1]
  /\ allowedOrigins = originSetup[2]
  /\ heartbeatSetup = hb
  /\ heartbeatInterval = HeartbeatIntervalOf(hb[1], hb[2])
  /\ pingTimeout = PingTimeoutOf(hb[3], hb[4])
  /\ announceConnections = announce
  /\ clients = <<>>
  /\ clientCounter = 0
  \* initializeServer: the timer is started only for a positive interval
  /\ heartbeatTimer = (heartbeatInterval > 0)
  /\ stopped = FALSE
  /\ now = 0
  /\ handshakes = 0
  /\ readyState = [h \in Conn |-> "NONE"]
  /\ listening = {}
  /\ idOf = [h \in Conn |-> 0]
  /\ nameOf = [h \in Conn |-> Empty]
  /\ sent = [h \in Conn |-> <<>>]
  /\ closeCalls = [h \in Conn |-> <<>>]
  /\ hbLog = [h \in Conn |-> <<>>]
  /\ throwing = {}
  /\ events = 0
  /\ ticks = 0

NoOriginCheck == <<FALSE, <<>>>>
Scenario == <<100, Undefined, 50, Undefined>>

\* The server of the spec's scenarios (heartbeatInterval=100, pingTimeout=50,
\* an API key), with either capacity and announcements on or off.
Init ==
  \E limit \in {1, 2}, announce \in BOOLEAN :
    Constructed(KeyGood, limit, 2, NoOriginCheck, Scenario, announce)

\* Every admission setting, for a server of capacity 1: key configured or
\* not, origin validation off, on with no origin allowed, on with two allowed.
InitAdmission ==
  \E key \in {Empty, KeyGood}, originSetup \in OriginSetups :
    Constructed(key, 1, 2, originSetup, Scenario, FALSE)

\* A server of capacity 3 without key that announces joins and leaves, for
\* the runs in which a send may throw.
InitFaulty == Constructed(Empty, 3, 2, NoOriginCheck, Scenario, TRUE)

\* Every heartbeat setting.
InitHeartbeat ==
  \E hb \in HeartbeatSetups :
    Constructed(Empty, 2, 2, NoOriginCheck, hb, FALSE)

\* Servers whose pingTimeout is the heartbeatInterval or longer.
InitPatient ==
  \E hb \in {<<100, Undefined, 100, Undefined>>, <<100, Undefined, 200, Undefined>>} :
    Constructed(Empty, 2, 2, NoOriginCheck, hb, FALSE)

(* ------------------------------ registry ------------------------------ *)
Falsy(x) == x = 0 \/ x = Undefined

\* ws.close(code) on a socket: the call is recorded and an open socket
\* starts closing; its 'close' event comes later.
CloseSocket(states, h) ==
  [states EXCEPT ![h] = IF @ = "OPEN" THEN "CLOSING" ELSE @]

\* broadcastSystemMessage without the excludeClientId test: the excluded
\* client is sent the frame as well.
broadcastSystemMessageToAll(log, registry, message, excludeClientId) ==
  [h \in Conn |->
     IF \E i \in DOMAIN registry : registry[i].ws = h /\ h \notin throwing
     THEN Append(log[h], message)
     ELSE log[h]]

\* broadcastSystemMessage: the frame is sent to every client of `registry`
\* but the excluded one; `log` is the send log so far.  A send that throws
\* is caught and logged, and the loop goes on.
broadcastSystemMessage(log, registry, message, excludeClientId) ==
  [h \in Conn |->
     IF \E i \in DOMAIN registry :
          /\ registry[i].ws = h
          /\ (Falsy(excludeClientId) \/ registry[i].id # excludeClientId)
          /\ h \notin throwing
     THEN Append(log[h], message)
     ELSE log[h]]

\* ClientName reading the counter before it is incremented.
ClientNameStale(clientName, clientId) ==
  IF clientName # Empty THEN clientName
  ELSE <<"c", "l", "i", "e", "n", "t", "-">> \o Digits(clientId - 1)

ClientName(clientName, clientId) ==
  IF clientName # Empty THEN clientName
  ELSE <<"c", "l", "i", "e", "n", "t", "-">> \o Digits(clientId)

\* Reject after the id was taken: the counter moves although nobody is
\* registered.
RejectCountingId(h, code) ==
  /\ closeCalls' = [closeCalls EXCEPT ![h] = Append(@, code)]
  /\ readyState' = [readyState EXCEPT ![h] = "CLOSING"]
  /\ handshakes' = h
  /\ clientCounter' = clientCounter + 1
  /\ UNCHANGED <<cfgVars, throwing, clients, heartbeatTimer, stopped, now, listening,
                 idOf, nameOf, sent, hbLog, ticks>>

Reject(h, code) ==
  /\ closeCalls' = [closeCalls EXCEPT ![h] = Append(@, code)]
  /\ readyState' = [readyState EXCEPT ![h] = "CLOSING"]
  /\ handshakes' = h
  /\ UNCHANGED <<cfgVars, throwing, srvVars, now, listening, idOf, nameOf, sent, hbLog,
                 ticks>>

\* Admit taking the id from the registry's size: the id of a removed client
\* is given out again.
AdmitReusingIds(h, clientName) ==
  LET clientId == Len(clients) + 1
      client == [ws |-> h, id |-> clientId,
                 name |-> ClientName(clientName, clientId),
                 connectedAt |-> now, lastPing |-> Undefined,
                 lastPong |-> now, awaitingPong |-> FALSE]
      registry == Append(clients, client)
      welcomed == [sent EXCEPT ![h] =
                     Append(@, SystemMessage(<<"Connected as", client.name, clientId>>, now))]
  IN
  /\ clientCounter' = clientId
  /\ clients' = registry
  /\ sent' = IF announceConnections
             THEN broadcastSystemMessage(welcomed, registry,
                    SystemMessage(<<"has joined the bridge", client.name>>, now),
                    client.id)
             ELSE welcomed
  /\ listening' = listening \cup {h}
  /\ idOf' = [idOf EXCEPT ![h] = clientId]
  /\ nameOf' = [nameOf EXCEPT ![h] = client.name]
  /\ readyState' = [readyState EXCEPT ![h] = "OPEN"]
  /\ handshakes' = h
  /\ UNCHANGED <<cfgVars, throwing, heartbeatTimer, stopped, now, closeCalls, hbLog,
                 ticks>>

\* Admit sending the welcome through the broadcast: every client gets it.
AdmitWelcomeToAll(h, clientName) ==
  LET clientId == clientCounter + 1
      client == [ws |-> h, id |-> clientId,
                 name |-> ClientName(clientName, clientId),
                 connectedAt |-> now, lastPing |-> Undefined,
                 lastPong |-> now, awaitingPong |-> FALSE]
      registry == Append(clients, client)
      welcomed == broadcastSystemMessage(sent, registry,
                    SystemMessage(<<"Connected as", client.name, clientId>>, now),
                    Undefined)
  IN
  /\ clientCounter' = clientId
  /\ clients' = registry
  /\ sent' = IF announceConnections
             THEN broadcastSystemMessage(welcomed, registry,
                    SystemMessage(<<"has joined the bridge", client.name>>, now),
                    client.id)
             ELSE welcomed
  /\ listening' = listening \cup {h}
  /\ idOf' = [idOf EXCEPT ![h] = clientId]
  /\ nameOf' = [nameOf EXCEPT ![h] = client.name]
  /\ readyState' = [readyState EXCEPT ![h] = "OPEN"]
  /\ handshakes' = h
  /\ UNCHANGED <<cfgVars, throwing, heartbeatTimer, stopped, now, closeCalls, hbLog,
                 ticks>>

\* Admit with this.clientCounter++ for ++this.clientCounter: ids start at 0.
AdmitIdsFromZero(h, clientName) ==
  LET clientId == clientCounter
      client == [ws |-> h, id |-> clientId,
                 name |-> ClientName(clientName, clientId),
                 connectedAt |-> now, lastPing |-> Undefined,
                 lastPong |-> now, awaitingPong |-> FALSE]
      registry == Append(clients, client)
      welcomed == [sent EXCEPT ![h] =
                     Append(@, SystemMessage(<<"Connected as", client.name, clientId>>, now))]
  IN
  /\ clientCounter' = clientCounter + 1
  /\ clients' = registry
  /\ sent' = IF announceConnections
             THEN broadcastSystemMessage(welcomed, registry,
                    SystemMessage(<<"has joined the bridge", client.name>>, now),
                    client.id)
             ELSE welcomed
  /\ listening' = listening \cup {h}
  /\ idOf' = [idOf EXCEPT ![h] = clientId]
  /\ nameOf' = [nameOf EXCEPT ![h] = client.name]
  /\ readyState' = [readyState EXCEPT ![h] = "OPEN"]
  /\ handshakes' = h
  /\ UNCHANGED <<cfgVars, throwing, heartbeatTimer, stopped, now, closeCalls, hbLog,
                 ticks>>

Admit(h, clientName) ==
  LET clientId == clientCounter + 1
      client == [ws |-> h, id |-> clientId,
                 name |-> ClientName(clientName, clientId),
                 connectedAt |-> now, lastPing |-> Undefined,
                 lastPong |-> now, awaitingPong |-> FALSE]
      registry == Append(clients, client)
      welcomed == [sent EXCEPT ![h] =
                     Append(@, SystemMessage(<<"Connected as", client.name, clientId>>, now))]
  IN
  /\ clientCounter' = clientId
  /\ clients' = registry
  /\ sent' = IF announceConnections
             THEN broadcastSystemMessage(welcomed, registry,
                    SystemMessage(<<"has joined the bridge", client.name>>, now),
                    client.id)
             ELSE welcomed
  /\ listening' = listening \cup {h}
  /\ idOf' = [idOf EXCEPT ![h] = clientId]
  /\ nameOf' = [nameOf EXCEPT ![h] = client.name]
  /\ readyState' = [readyState EXCEPT ![h] = "OPEN"]
  /\ handshakes' = h
  /\ UNCHANGED <<cfgVars, throwing, heartbeatTimer, stopped, now, closeCalls, hbLog,
                 ticks>>

\* The capacity check, off by one: a full registry still admits.
CapacityReachedLate == Len(clients) > maxClients

\* The capacity check, off by one the other way: the last free place is
\* never given.
CapacityReachedEarly == Len(clients) + 1 >= maxClients

\* The capacity check of handleConnection.
CapacityReached == Len(clients) >= maxClients

\* handleConnection with the capacity check moved before the key check.
handleConnectionCapacityFirst(origin, key, clientName) ==
  LET h == handshakes + 1 IN
  /\ ~stopped
  /\ IF validateOrigin /\ origin = Empty THEN Reject(h, CodeOrigin)
     ELSE IF validateOrigin /\ ~isOriginAllowed(origin) THEN Reject(h, CodeOrigin)
     ELSE IF CapacityReached THEN Reject(h, CodeCapacity)
     ELSE IF apiKey # Empty /\ key # apiKey THEN Reject(h, CodeInvalidKey)
     ELSE Admit(h, clientName)

\* handleConnection checking the key only when one is presented.
handleConnectionAbsentKeyPasses(origin, key, clientName) ==
  LET h == handshakes + 1 IN
  /\ ~stopped
  /\ IF validateOrigin /\ origin = Empty THEN Reject(h, CodeOrigin)
     ELSE IF validateOrigin /\ ~isOriginAllowed(origin) THEN Reject(h, CodeOrigin)
     ELSE IF apiKey # Empty /\ key # Empty /\ key # apiKey THEN Reject(h, CodeInvalidKey)
     ELSE IF CapacityReached THEN Reject(h, CodeCapacity)
     ELSE Admit(h, clientName)

\* handleConnection comparing the keys even when no key is configured.
handleConnectionAlwaysChecksKey(origin, key, clientName) ==
  LET h == handshakes + 1 IN
  /\ ~stopped
  /\ IF validateOrigin /\ origin = Empty THEN Reject(h, CodeOrigin)
     ELSE IF validateOrigin /\ ~isOriginAllowed(origin) THEN Reject(h, CodeOrigin)
     ELSE IF key # apiKey THEN Reject(h, CodeInvalidKey)
     ELSE IF CapacityReached THEN Reject(h, CodeCapacity)
     ELSE Admit(h, clientName)

\* handleConnection checking the key before the origin.
handleConnectionKeyFirst(origin, key, clientName) ==
  LET h == handshakes + 1 IN
  /\ ~stopped
  /\ IF apiKey # Empty /\ key # apiKey THEN Reject(h, CodeInvalidKey)
     ELSE IF validateOrigin /\ origin = Empty THEN Reject(h, CodeOrigin)
     ELSE IF validateOrigin /\ ~isOriginAllowed(origin) THEN Reject(h, CodeOrigin)
     ELSE IF CapacityReached THEN Reject(h, CodeCapacity)
     ELSE Admit(h, clientName)

\* The 'connection' handler, for the next socket of the run.
handleConnection(origin, key, clientName) ==
  LET h == handshakes + 1 IN
  /\ ~stopped
  /\ IF validateOrigin /\ origin = Empty THEN Reject(h, CodeOrigin)
     ELSE IF validateOrigin /\ ~isOriginAllowed(origin) THEN Reject(h, CodeOrigin)
     ELSE IF apiKey # Empty /\ key # apiKey THEN Reject(h, CodeInvalidKey)
     ELSE IF CapacityReached THEN Reject(h, CodeCapacity)
     ELSE Admit(h, clientName)

(* ------------------------------- relay -------------------------------- *)
\* Forward without the try/catch around each send: the first send that
\* throws ends the loop, and the clients after it in the registry get nothing.
ForwardAbortsOnThrow(log, registry, senderId, message) ==
  [h \in Conn |->
     IF \E i \in DOMAIN registry :
          /\ registry[i].ws = h
          /\ registry[i].id # senderId
          /\ \A j \in 1..i : registry[j].id = senderId \/ registry[j].ws \notin throwing
     THEN Append(log[h], RelayedFrame(message))
     ELSE log[h]]

\* Forward putting the frame in front of what the recipient was sent before.
ForwardInFront(log, registry, senderId, message) ==
  [h \in Conn |->
     IF /\ \E i \in DOMAIN registry : registry[i].ws = h /\ registry[i].id # senderId
        /\ h \notin throwing
     THEN <<RelayedFrame(message)>> \o log[h]
     ELSE log[h]]

\* Forward looping over every socket with handlers attached instead of the
\* registry.
ForwardToAttached(log, registry, senderId, message) ==
  [h \in Conn |->
     IF h \in listening /\ idOf[h] # senderId /\ h \notin throwing
     THEN Append(log[h], RelayedFrame(message))
     ELSE log[h]]

\* The frames of one relay: `message` to every client but the sender; a
\* send that throws is caught and logged, and the loop goes on.
Forward(log, registry, senderId, message) ==
  [h \in Conn |->
     IF /\ \E i \in DOMAIN registry : registry[i].ws = h /\ registry[i].id # senderId
        /\ h \notin throwing
     THEN Append(log[h], RelayedFrame(message))
     ELSE log[h]]

\* The sender is told of a payload over the limit, and nothing is relayed.
RejectOversized(h) ==
  IF h \in throwing THEN sent
  ELSE [sent EXCEPT ![h] =
          Append(@, SystemMessage(
            <<"Message rejected: Exceeds size limit of", maxMessageSize, "bytes">>, now))]

\* handleMessage without the return after the size-limit notice: the
\* oversized payload is relayed as well.
handleMessageFallThrough(h, data) ==
  /\ h \in listening
  /\ readyState[h] # "CLOSED"
  /\ sent' = IF Len(data) > maxMessageSize
             THEN Forward(RejectOversized(h), clients, idOf[h], Utf8Decode(data))
             ELSE Forward(sent, clients, idOf[h], Utf8Decode(data))
  /\ UNCHANGED <<cfgVars, throwing, srvVars, now, handshakes, readyState, listening, idOf,
                 nameOf, closeCalls, hbLog, ticks>>

\* handleMessage closing the sender of an oversized payload after the
\* size-limit notice.
handleMessageClosesSender(h, data) ==
  /\ h \in listening
  /\ readyState[h] # "CLOSED"
  /\ sent' = IF Len(data) > maxMessageSize
             THEN RejectOversized(h)
             ELSE Forward(sent, clients, idOf[h], Utf8Decode(data))
  /\ closeCalls' = IF Len(data) > maxMessageSize
                   THEN [closeCalls EXCEPT ![h] = Append(@, CodeInvalidKey)]
                   ELSE closeCalls
  /\ readyState' = IF Len(data) > maxMessageSize
                   THEN CloseSocket(readyState, h)
                   ELSE readyState
  /\ UNCHANGED <<cfgVars, throwing, srvVars, now, handshakes, listening, idOf,
                 nameOf, hbLog, ticks>>

\* handleMessage with >= for > in the size test: a payload of exactly
\* maxMessageSize bytes is dropped as well.
handleMessageExclusiveLimit(h, data) ==
  /\ h \in listening
  /\ readyState[h] # "CLOSED"
  /\ sent' = IF Len(data) >= maxMessageSize
             THEN RejectOversized(h)
             ELSE Forward(sent, clients, idOf[h], Utf8Decode(data))
  /\ UNCHANGED <<cfgVars, throwing, srvVars, now, handshakes, readyState, listening, idOf,
                 nameOf, closeCalls, hbLog, ticks>>

\* The 'message' handler of socket h, for the payload `data` (a Buffer).
handleMessage(h, data) ==
  /\ h \in listening
  /\ readyState[h] # "CLOSED"
  /\ sent' = IF Len(data) > maxMessageSize
             THEN RejectOversized(h)
             ELSE Forward(sent, clients, idOf[h], Utf8Decode(data))
  /\ UNCHANGED <<cfgVars, throwing, srvVars, now, handshakes, readyState, listening, idOf,
                 nameOf, closeCalls, hbLog, ticks>>

(* ----------------------------- heartbeat ------------------------------ *)
Pings(h) == Cardinality({i \in DOMAIN hbLog[h] : hbLog[h][i][1] = "ping"})
Pongs(h) == Cardinality({i \in DOMAIN hbLog[h] : hbLog[h][i][1] = "pong"})

\* The 'pong' handler of socket h: a pong answers a ping sent earlier.
handlePong(h) ==
  /\ h \in listening
  /\ readyState[h] # "CLOSED"
  /\ Pongs(h) < Pings(h)
  /\ clients' = [i \in DOMAIN clients |->
                   IF clients[i].ws = h
                   THEN [clients[i] EXCEPT !.lastPong = now, !.awaitingPong = FALSE]
                   ELSE clients[i]]
  /\ hbLog' = [hbLog EXCEPT ![h] = Append(@, <<"pong", now>>)]
  /\ UNCHANGED <<cfgVars, throwing, clientCounter, heartbeatTimer, stopped, now, handshakes,
                 readyState, listening, idOf, nameOf, sent, closeCalls, ticks>>

\* The timeout test without the awaitingPong flag: an answered ping counts.
TimedOutIgnoringPong(client, t) ==
  /\ client.lastPing # Undefined
  /\ t - client.lastPing > pingTimeout

\* The timeout test measured from the interval's end instead of the ping.
TimedOutLate(client, t) ==
  /\ client.awaitingPong
  /\ client.lastPing # Undefined
  /\ t - client.lastPing - heartbeatInterval > pingTimeout

\* The timeout test of sendHeartbeats for one client at time t.
TimedOut(client, t) ==
  /\ client.awaitingPong
  /\ client.lastPing # Undefined
  /\ t - client.lastPing > pingTimeout

\* Swept recording the time of the first ping only: a later ping leaves
\* lastPing as it was.
SweptKeepsFirstPing(client, t) ==
  IF TimedOut(client, t) THEN client
  ELSE [client EXCEPT !.lastPing = IF @ = Undefined THEN t ELSE @,
                      !.awaitingPong = TRUE]

\* What sendHeartbeats leaves of one client at time t.
Swept(client, t) ==
  IF TimedOut(client, t) THEN client
  ELSE [client EXCEPT !.lastPing = t, !.awaitingPong = TRUE]

\* How late a tick of the timer may come (setInterval never fires early).
Lateness == {0, 1}

\* sendHeartbeats without the return after the timeout close: a client
\* closed for timeout is pinged in the same sweep.
sendHeartbeatsNoReturn(late) ==
  LET t == now + heartbeatInterval + late
      timedOut == {clients[i].ws : i \in {j \in DOMAIN clients : TimedOut(clients[j], t)}}
  IN
  /\ heartbeatTimer
  /\ ticks' = ticks + 1
  /\ now' = t
  /\ clients' = [i \in DOMAIN clients |->
                   [clients[i] EXCEPT !.lastPing = t, !.awaitingPong = TRUE]]
  /\ closeCalls' = [h \in Conn |->
                      IF h \in timedOut THEN Append(closeCalls[h], CodeTimeout)
                      ELSE closeCalls[h]]
  /\ readyState' = [h \in Conn |->
                      IF h \in timedOut THEN CloseSocket(readyState, h)[h]
                      ELSE readyState[h]]
  /\ hbLog' = [h \in Conn |->
                 IF h \in timedOut THEN hbLog[h] \o <<<<"timeout", t>>, <<"ping", t>>>>
                 ELSE IF h \in Members THEN Append(hbLog[h], <<"ping", t>>)
                 ELSE hbLog[h]]
  /\ UNCHANGED <<cfgVars, throwing, clientCounter, heartbeatTimer, stopped, handshakes,
                 listening, idOf, nameOf, sent>>

\* The timer's callback, `late` after the interval has passed.
sendHeartbeats(late) ==
  LET t == now + heartbeatInterval + late
      timedOut == {clients[i].ws : i \in {j \in DOMAIN clients : TimedOut(clients[j], t)}}
      pinged == Members \ timedOut
  IN
  /\ heartbeatTimer
  /\ ticks' = ticks + 1
  /\ now' = t
  /\ clients' = [i \in DOMAIN clients |-> Swept(clients[i], t)]
  /\ closeCalls' = [h \in Conn |->
                      IF h \in timedOut THEN Append(closeCalls[h], CodeTimeout)
                      ELSE closeCalls[h]]
  /\ readyState' = [h \in Conn |->
                      IF h \in timedOut THEN CloseSocket(readyState, h)[h]
                      ELSE readyState[h]]
  /\ hbLog' = [h \in Conn |->
                 IF h \in timedOut THEN Append(hbLog[h], <<"timeout", t>>)
                 ELSE IF h \in pinged THEN Append(hbLog[h], <<"ping", t>>)
                 ELSE hbLog[h]]
  /\ UNCHANGED <<cfgVars, throwing, clientCounter, heartbeatTimer, stopped, handshakes,
                 listening, idOf, nameOf, sent>>

(* ------------------------------- close -------------------------------- *)
\* Removal by position, as with splice(findIndex(...), 1): for an id that is
\* not there the index is -1 and the last entry goes.
RemoveBySplice(registry, clientId) ==
  IF \E i \in DOMAIN registry : registry[i].id = clientId
  THEN SelectSeq(registry, LAMBDA c : c.id # clientId)
  ELSE SubSeq(registry, 1, Len(registry) - 1)

\* this.clients.filter(c => c.id !== clientId)
Remove(registry, clientId) == SelectSeq(registry, LAMBDA c : c.id # clientId)

\* The 'close' handler without the filter: the closed client keeps its
\* place in the registry.
handleCloseKeepsEntry(h) ==
  /\ h \in listening
  /\ readyState[h] # "CLOSED"
  /\ readyState' = [readyState EXCEPT ![h] = "CLOSED"]
  /\ clients' = clients
  /\ sent' = IF announceConnections
             THEN broadcastSystemMessage(sent, clients,
                    SystemMessage(<<"has left the bridge", nameOf[h]>>, now),
                    Undefined)
             ELSE sent
  /\ UNCHANGED <<cfgVars, throwing, clientCounter, heartbeatTimer, stopped, now, handshakes,
                 listening, idOf, nameOf, closeCalls, hbLog, ticks>>

\* The 'close' handler of socket h: the peer went away, or a close the
\* server asked for has completed.
handleClose(h) ==
  LET registry == Remove(clients, idOf[h]) IN
  /\ h \in listening
  /\ readyState[h] # "CLOSED"
  /\ readyState' = [readyState EXCEPT ![h] = "CLOSED"]
  /\ clients' = registry
  /\ sent' = IF announceConnections
             THEN broadcastSystemMessage(sent, registry,
                    SystemMessage(<<"has left the bridge", nameOf[h]>>, now),
                    Undefined)
             ELSE sent
  /\ UNCHANGED <<cfgVars, throwing, clientCounter, heartbeatTimer, stopped, now, handshakes,
                 listening, idOf, nameOf, closeCalls, hbLog, ticks>>

(* ---------------------------- enumeration ----------------------------- *)
\* Removal in place, as with splice: the array being enumerated loses the
\* entry and the entries after it move down.
EnumeratedAfterSplice(array, op) ==
  IF op[1] = "close" THEN Remove(array, op[2])
  ELSE Append(array, op[2])

\* What a handler leaves of the array object that is being enumerated:
\* 'close' builds a new array with filter and points this.clients at it, so
\* the enumerated array keeps its entries; 'connection' pushes in place.
EnumeratedAfter(array, op) ==
  IF op[1] = "close" THEN array
  ELSE Append(array, op[2])

\* this.clients.forEach(...): the entries the callback is called with when
\* the handler `op` runs after k callbacks.  forEach reads the length once,
\* before the first callback, and visits the indexes below it that are still
\* in the array.
forEach(array, k, op) ==
  LET len == Len(array)
      after == EnumeratedAfter(array, op)
      upTo == IF Len(after) < len THEN Len(after) ELSE len
  IN SubSeq(array, 1, k) \o SubSeq(after, k + 1, upTo)

\* The handlers that change the registry: the 'close' of a client, and a
\* 'connection' that is admitted.
RegistryOps ==
  {<<"close", id>> : id \in 1..MaxEvents}
    \cup {<<"connection",
            [ws |-> handshakes + 1, id |-> clientCounter + 1,
             name |-> ClientName(Empty, clientCounter + 1),
             connectedAt |-> now, lastPing |-> Undefined,
             lastPong |-> now, awaitingPong |-> FALSE]>>}

(* -------------------------------- stop -------------------------------- *)
\* stop: each client is sent the shutdown notice and closed inside one try
\* block, so a send that throws skips that client's close.
stop ==
  /\ ~stopped
  /\ stopped' = TRUE
  /\ heartbeatTimer' = FALSE
  /\ sent' = [h \in Conn |->
                IF h \in Members \ throwing
                THEN Append(sent[h], SystemMessage(<<"Server shutting down">>, now))
                ELSE sent[h]]
  /\ closeCalls' = [h \in Conn |->
                      IF h \in Members \ throwing THEN Append(closeCalls[h], NoCode)
                      ELSE closeCalls[h]]
  /\ readyState' = [h \in Conn |->
                      IF h \in Members \ throwing THEN CloseSocket(readyState, h)[h]
                      ELSE readyState[h]]
  /\ clients' = <<>>
  /\ UNCHANGED <<cfgVars, throwing, clientCounter, now, handshakes, listening, idOf, nameOf,
                 hbLog, ticks>>

(* ------------------------------ accessors ----------------------------- *)
getClientCount == Len(clients)

(* --------------------------- failing sends ---------------------------- *)
\* From now on ws.send of the registered socket h throws: the catch blocks
\* around the sends of handleMessage, broadcastSystemMessage and stop run
\* for it.  (The socket handed to handleConnection is new and open, so its
\* welcome is sent.)
SendBreaks(h) ==
  /\ h \in Members \ throwing
  /\ throwing' = throwing \cup {h}
  /\ UNCHANGED <<cfgVars, srvVars, now, handshakes, readyState, listening, idOf,
                 nameOf, sent, closeCalls, hbLog, ticks>>

(* ---------------------------- specification --------------------------- *)
Connect ==
  \E origin \in Origins, key \in Keys, clientName \in Names :
    handleConnection(origin, key, clientName)

Message == \E h \in Conn, data \in Payloads : handleMessage(h, data)

Pong == \E h \in Conn : handlePong(h)

Close == \E h \in Conn : handleClose(h)

Tick == \E late \in Lateness : sendHeartbeats(late)

Stop == stop

Handled == events < MaxEvents /\ events' = events + 1

Next ==
  \/ Connect /\ Handled
  \/ Message /\ Handled
  \/ Pong /\ Handled
  \/ Close /\ Handled
  \/ Tick /\ Handled
  \/ Stop /\ Handled

Spec == Init /\ [][Next]_vars

SpecAdmission == InitAdmission /\ [][Next]_vars

SpecHeartbeat == InitHeartbeat /\ [][Next]_vars

SpecPatient == InitPatient /\ [][Next]_vars

Break == \E h \in Conn : SendBreaks(h)

NextFaulty ==
  \/ Next
  \/ Break /\ Handled

SpecFaulty == InitFaulty /\ [][NextFaulty]_vars

(* ------------------------------- claims ------------------------------- *)
\* The socket the next handshake brings.
NextSocket == handshakes + 1

\* The log `after` is the log `before` with one more frame.
OneMore(before, after) ==
  /\ Len(after) = Len(before) + 1
  /\ SubSeq(after, 1, Len(before)) = before

\* C1: a payload within maxMessageSize sent by a registered connection is
\* delivered unmodified, exactly once, to every other connection in the
\* registry at that moment, and is not delivered to the sender (nor to
\* anyone outside the registry).
C1_RelayUnmodifiedOnce ==
  [][\A h \in Conn, data \in Payloads :
       (/\ h \in Members
        /\ Len(data) <= maxMessageSize
        /\ handleMessage(h, data))
       => \A r \in Conn :
            IF r \in Members \ {h}
            THEN /\ OneMore(sent[r], sent'[r])
                 /\ Last(sent'[r]).type = "data"
                 /\ WireBytes(Last(sent'[r])) = data
            ELSE sent'[r] = sent[r]]_vars

\* C2: in every reachable state the registry holds at most maxClients
\* connections.
C2_RegistryWithinCapacity == Len(clients) <= maxClients

\* A full registry that has turned a handshake away for capacity.
C2_Witness ==
  /\ Len(clients) = maxClients
  /\ \E h \in Conn : closeCalls[h] = <<CodeCapacity>>
  /\ \E h \in Conn : readyState[h] = "CLOSED"

\* C3 as claimed: a handshake that arrives while the registry is full is
\* rejected with the capacity code, whatever key it presents.
C3_FullAlwaysCapacityCode ==
  [][\A origin \in Origins, key \in Keys, clientName \in Names :
       (/\ Len(clients) = maxClients
        /\ handshakes' = NextSocket
        /\ handleConnection(origin, key, clientName))
       => closeCalls'[NextSocket] = <<CodeCapacity>>]_vars

\* C3 as amended: a handshake that arrives while the registry is full is
\* always rejected and changes nothing of the registry; its one close code
\* is that of the first failing check: the origin code if origin validation
\* is on and the origin is absent or not allowed, else the invalid-key code
\* if a key is configured and the presented key differs or is absent, else
\* the capacity code.
C3_FullAlwaysRejected ==
  [][\A origin \in Origins, key \in Keys, clientName \in Names :
       (/\ Len(clients) = maxClients
        /\ handshakes' = NextSocket
        /\ handleConnection(origin, key, clientName))
       => /\ clients' = clients
          /\ clientCounter' = clientCounter
          /\ NextSocket \notin listening'
          /\ sent'[NextSocket] = <<>>
          /\ closeCalls'[NextSocket] =
               << IF validateOrigin /\ (origin = Empty \/ ~isOriginAllowed(origin))
                  THEN CodeOrigin
                  ELSE IF apiKey # Empty /\ key # apiKey THEN CodeInvalidKey
                  ELSE CodeCapacity >>]_vars

\* No connection has closed and the registry filled with the first
\* maxClients handshakes; of the later ones, one was turned away for
\* capacity and one for its key.
C3_Witness ==
  /\ Len(clients) = maxClients
  /\ clientCounter = maxClients
  /\ \A h \in listening : readyState[h] = "OPEN"
  /\ \A h \in 1..maxClients : h \in listening
  /\ \E h1, h2 \in Conn :
       /\ closeCalls[h1] = <<CodeCapacity>>
       /\ closeCalls[h2] = <<CodeInvalidKey>>

(* Heartbeat history of a socket, read from hbLog. *)
Kinds(h) == [i \in DOMAIN hbLog[h] |-> hbLog[h][i][1]]
PingIndexes(h) == {i \in DOMAIN hbLog[h] : hbLog[h][i][1] = "ping"}
FirstPingTime(h) == hbLog[h][CHOOSE i \in PingIndexes(h) : \A j \in PingIndexes(h) : i <= j][2]
LatestPing(h) == CHOOSE i \in PingIndexes(h) : \A j \in PingIndexes(h) : j <= i
TimeoutClosed(h) == CodeTimeout \in Range(closeCalls[h])

\* C4: a connection that never answers a ping is closed with the timeout
\* code (and then removed), whatever heartbeatInterval > 0 and pingTimeout
\* are: read on a finite run, once more than pingTimeout has passed since
\* its first ping, no such connection is still open after a sweep.
C4_SilentIsEvicted ==
  \A h \in listening :
    (readyState[h] = "OPEN" /\ Pings(h) > 0 /\ Pongs(h) = 0)
    => now - FirstPingTime(h) <= pingTimeout

\* C5: a connection the sweep has closed for ping timeout is out of the
\* registry when that sweep ends.
C5_EvictedLeavesRegistry ==
  \A h \in Conn : TimeoutClosed(h) => h \notin Members

\* C6: eviction is terminal: a connection closed for ping timeout is never
\* closed for timeout a second time, is never pinged again, and (while it
\* is still registered) never leaves the state the timeout found it in for
\* IDLE.
C6_EvictedIsTerminal ==
  \A h \in Conn :
    TimeoutClosed(h)
    => /\ Cardinality({i \in DOMAIN closeCalls[h] : closeCalls[h][i] = CodeTimeout}) = 1
       /\ \A i, j \in DOMAIN hbLog[h] :
            (hbLog[h][i][1] = "timeout" /\ i < j) => hbLog[h][j][1] # "ping"
       /\ \A i \in DOMAIN clients : clients[i].ws = h => clients[i].awaitingPong

\* Each ping of h so far was followed by its pong before the next sweep.
AnsweredInTime(h) ==
  \A i \in PingIndexes(h) : i < Len(hbLog[h]) /\ hbLog[h][i + 1][1] = "pong"

\* C7: a connection is closed for ping timeout at a tick only if it was
\* pinged at an earlier tick, no pong of it was handled since its latest
\* ping, and more than pingTimeout has passed since that ping; so a
\* connection whose every ping was answered before the next tick is not
\* closed for timeout; and a pong clears awaitingPong and records lastPong.
C7_TimeoutOnlyIfUnanswered ==
  [][\A h \in Conn :
       /\ closeCalls'[h] = Append(closeCalls[h], CodeTimeout)
          => /\ PingIndexes(h) # {}
             /\ \A j \in DOMAIN hbLog[h] : j > LatestPing(h) => hbLog[h][j][1] # "pong"
             /\ hbLog[h][LatestPing(h)][2] < now'
             /\ now' - hbLog[h][LatestPing(h)][2] > pingTimeout
             /\ ~AnsweredInTime(h)
       /\ hbLog'[h] = Append(hbLog[h], <<"pong", now>>)
          => \A i \in DOMAIN clients' :
               clients'[i].ws = h
               => /\ ~clients'[i].awaitingPong
                  /\ clients'[i].lastPong = now]_vars

\* A connection that answered one ping in time, missed the next and was
\* closed for it.
C7_Witness ==
  \E h \in Conn : Kinds(h) = <<"ping", "pong", "ping", "timeout">>

\* C8: when pingTimeout < heartbeatInterval (as with 100 and 50), a
\* connection whose latest ping is unanswered is closed for timeout at the
\* very next tick, at most heartbeatInterval + pingTimeout after that ping
\* and without another ping; when its close is handled the registry size
\* drops by exactly 1.
C8_SilentEvictedAtNextTick ==
  [][pingTimeout < heartbeatInterval =>
       \A h \in Members :
         /\ (ticks' = ticks + 1 /\ hbLog[h] # <<>> /\ Last(hbLog[h])[1] = "ping")
            => /\ hbLog'[h] = Append(hbLog[h], <<"timeout", now'>>)
               /\ closeCalls'[h] = Append(closeCalls[h], CodeTimeout)
               /\ now' - Last(hbLog[h])[2] <= heartbeatInterval + pingTimeout
         /\ (TimeoutClosed(h) /\ readyState[h] # "CLOSED" /\ readyState'[h] = "CLOSED")
            => /\ Len(clients') = Len(clients) - 1
               /\ h \notin {clients'[i].ws : i \in DOMAIN clients'}]_vars

\* In the scenario a connection never answered, was closed for timeout at
\* the tick after its ping, and its close took it out of a registry of two.
C8_Witness ==
  /\ heartbeatInterval = 100 /\ pingTimeout = 50
  /\ Len(clients) = 1
  /\ \E h \in Conn :
       /\ Kinds(h) = <<"ping", "timeout">>
       /\ hbLog[h][2][2] - hbLog[h][1][2] <= 150
       /\ readyState[h] = "CLOSED"

\* C9: a heartbeat interval configured as 0, by the heartbeatInterval option
\* or by SOCKET_BRIDGE_HEARTBEAT_INTERVAL=0, disables the heartbeat: no ping
\* is ever sent and no connection is closed for ping timeout.
C9_ZeroDisablesHeartbeat ==
  (\/ heartbeatSetup[1] = 0
   \/ heartbeatSetup[1] = Undefined /\ heartbeatSetup[2] = 0)
  => \A h \in Conn : Pings(h) = 0 /\ ~TimeoutClosed(h)

\* C10: a payload longer than maxMessageSize is delivered to no connection
\* other than its sender, and the sender is sent exactly one system message
\* with the text "Exceeds size limit of {maxMessageSize} bytes".
C10_OversizedNotRelayed ==
  [][\A h \in Conn, data \in Payloads :
       (/\ Len(data) > maxMessageSize
        /\ handleMessage(h, data))
       => /\ \A r \in Conn \ {h} : sent'[r] = sent[r]
          /\ OneMore(sent[h], sent'[h])
          /\ Last(sent'[h]).type = "system"
          /\ Last(sent'[h]).message =
               <<"Message rejected: Exceeds size limit of", maxMessageSize, "bytes">>]_vars

\* Two connections are registered and one of them has been told of an
\* oversized payload; the other was sent nothing but its welcome.
C10_Witness ==
  /\ Len(clients) = 2
  /\ ~announceConnections
  /\ \E h \in Members :
       /\ Len(sent[h]) = 2
       /\ sent[h][2].type = "system"
       /\ sent[h][2].message[2] = maxMessageSize
       /\ \A r \in Members \ {h} : Len(sent[r]) = 1

\* The sender h has been told of an oversized payload.
ToldOversized(h) ==
  \E i \in DOMAIN sent[h] :
    /\ sent[h][i].type = "system"
    /\ sent[h][i].message[1] = "Message rejected: Exceeds size limit of"

\* C11: handling an oversized payload leaves the sender connected: its
\* socket is not closed, the registry (members, size, id counter, each
\* client's heartbeat fields) is unchanged, and a later payload within the
\* limit from the same sender is relayed to every other client.
C11_OversizeKeepsSender ==
  [][\A h \in Conn, data \in Payloads :
       handleMessage(h, data)
       => /\ Len(data) > maxMessageSize
             => /\ readyState' = readyState
                /\ closeCalls' = closeCalls
                /\ clients' = clients
                /\ clientCounter' = clientCounter
                /\ listening' = listening
                /\ hbLog' = hbLog
          /\ (ToldOversized(h) /\ Len(data) <= maxMessageSize)
             => \A r \in Members \ {h} :
                  /\ OneMore(sent[r], sent'[r])
                  /\ Last(sent'[r]) = RelayedFrame(Utf8Decode(data))]_vars

\* A sender that was told of an oversized payload is still open and
\* registered, and the other client has a payload that only it can have
\* sent.
C11_Witness ==
  \E h \in Members :
    /\ ToldOversized(h)
    /\ readyState[h] = "OPEN"
    /\ closeCalls[h] = <<>>
    /\ \A i \in DOMAIN sent[h] : sent[h][i].type = "system"
    /\ \E r \in Members \ {h} : \E i \in DOMAIN sent[r] : sent[r][i].type = "data"

\* The sockets of the clients in the registry after the step.
MembersAfter == {clients'[i].ws : i \in DOMAIN clients'}

\* C12: delivery is isolated per recipient: when the send to one recipient
\* throws during a relay or a system broadcast (join or leave notice), every
\* other eligible client still gets the frame exactly once, and the failing
\* recipient is neither removed from the registry nor closed.
C12_DeliveryIsolated ==
  [][/\ \A h \in Conn, data \in Payloads :
          (/\ UNCHANGED <<handshakes, clients, throwing, ticks, stopped, hbLog>>
           /\ Len(data) <= maxMessageSize
           /\ handleMessage(h, data))
          => /\ \A r \in Members \ {h} :
                  IF r \in throwing THEN sent'[r] = sent[r]
                  ELSE /\ OneMore(sent[r], sent'[r])
                       /\ Last(sent'[r]) = RelayedFrame(Utf8Decode(data))
             /\ clients' = clients
             /\ readyState' = readyState
             /\ closeCalls' = closeCalls
     /\ (announceConnections /\ handshakes' # handshakes /\ clients' # clients)
        => /\ \A r \in Members :
                IF r \in throwing THEN sent'[r] = sent[r]
                ELSE /\ OneMore(sent[r], sent'[r])
                     /\ Last(sent'[r]).type = "system"
                     /\ Last(sent'[r]).message[1] = "has joined the bridge"
           /\ SubSeq(clients', 1, Len(clients)) = clients
           /\ \A r \in Members : readyState'[r] = readyState[r] /\ closeCalls'[r] = closeCalls[r]
     /\ \A h \in Conn :
          (announceConnections /\ readyState[h] # "CLOSED" /\ readyState'[h] = "CLOSED")
          => /\ MembersAfter = Members \ {h}
             /\ \A r \in MembersAfter :
                  /\ readyState'[r] = readyState[r]
                  /\ closeCalls'[r] = closeCalls[r]
                  /\ IF r \in throwing THEN sent'[r] = sent[r]
                     ELSE /\ OneMore(sent[r], sent'[r])
                          /\ Last(sent'[r]).type = "system"
                          /\ Last(sent'[r]).message[1] = "has left the bridge"]_vars

\* Three clients in admission order: the send to the first throws, the third
\* has relayed a payload, and the second, after the failing one in the
\* registry, has it while the failing one is still registered and open.
C12_Witness ==
  /\ Len(clients) = 3
  /\ clients[1].ws \in throwing
  /\ throwing = {clients[1].ws}
  /\ readyState[clients[1].ws] = "OPEN"
  /\ closeCalls[clients[1].ws] = <<>>
  /\ \A i \in DOMAIN sent[clients[1].ws] : sent[clients[1].ws][i].type = "system"
  /\ \A i \in DOMAIN sent[clients[3].ws] : sent[clients[3].ws][i].type = "system"
  /\ \E i \in DOMAIN sent[clients[2].ws] : sent[clients[2].ws][i].type = "data"

\* C13: the payloads of a sender reach a recipient in the order the sender
\* sent them, whatever else is interleaved: the 'message' events of a socket
\* are handled in the order of its frames, every relay puts its frame after
\* all the frames the recipient was sent before, and no step (relay of
\* another sender, system notice, admission, removal, sweep, stop) reorders
\* or drops frames already sent to a socket.
C13_SenderOrderKept ==
  [][/\ \A r \in Conn :
          /\ Len(sent[r]) <= Len(sent'[r])
          /\ SubSeq(sent'[r], 1, Len(sent[r])) = sent[r]
     /\ \A h \in Conn, data \in Payloads :
          (Len(data) <= maxMessageSize /\ handleMessage(h, data))
          => \A r \in Members \ {h} :
               sent'[r] = Append(sent[r], RelayedFrame(Utf8Decode(data)))]_vars

\* The second socket was sent "\u00e9" and then "aa" by the first, with a
\* system notice (for an oversized payload of its own) in between.
C13_Witness ==
  /\ Len(clients) = 2
  /\ announceConnections
  /\ Len(sent[2]) = 4
  /\ sent[2][2] = RelayedFrame(<<233>>)
  /\ sent[2][3].type = "system"
  /\ sent[2][4] = RelayedFrame(<<97, 97>>)
  /\ \A i \in DOMAIN sent[1] : sent[1][i].type = "system"

\* C14: a connection that is not in the registry (rejected at admission,
\* removed by its close event, or cleared by stop) is not a recipient of a
\* relayed payload or of a system broadcast and is not sent a ping: a step
\* sends a socket outside the registry nothing, except the welcome of the
\* step that registers it and the size-limit notice for a payload of its
\* own.
C14_OutsideRegistryGetsNothing ==
  [][\A r \in Conn \ Members :
       /\ hbLog'[r] # hbLog[r] => Last(hbLog'[r])[1] # "ping"
       /\ sent'[r] # sent[r]
          => /\ OneMore(sent[r], sent'[r])
             /\ Last(sent'[r]).type = "system"
             /\ \/ /\ r \in MembersAfter
                   /\ Last(sent'[r]).message[1] = "Connected as"
                \/ /\ Last(sent'[r]).message[1] = "Message rejected: Exceeds size limit of"
                   /\ \A q \in Conn \ {r} : sent'[q] = sent[q]]_vars

\* The first client was removed by its close event; the third, admitted in
\* its place, was then relayed a payload of the second, which the removed
\* one was not sent.
C14_Witness ==
  /\ readyState[1] = "CLOSED"
  /\ 1 \notin Members
  /\ Members = {2, 3}
  /\ \A i \in DOMAIN sent[1] : sent[1][i].type = "system"
  /\ \E i \in DOMAIN sent[3] : sent[3][i].type = "data"

\* The sockets that were admitted, in the order of their handshakes.
Admitted == {h \in Conn : idOf[h] # 0}

\* C15: ids are unique for the server's lifetime and strictly increasing in
\* admission order: a later admission gets a greater id than every earlier
\* one, also after removals (no id is given out twice), the first id is 1,
\* and the registry holds its clients under these ids.
C15_IdsUniqueIncreasing ==
  /\ \A h1, h2 \in Admitted : h1 < h2 => idOf[h1] < idOf[h2]
  /\ \A h \in Admitted : (\A g \in Admitted : h <= g) => idOf[h] = 1
  /\ \A h \in Admitted : idOf[h] <= clientCounter
  /\ \A i \in DOMAIN clients : clients[i].id = idOf[clients[i].ws]
  /\ \A i, j \in DOMAIN clients : i < j => clients[i].id < clients[j].id

\* The first client got id 1 and was removed, the second handshake was
\* rejected, and the third was admitted with id 2.
C15_Witness ==
  /\ idOf[1] = 1 /\ readyState[1] = "CLOSED" /\ 1 \notin Members
  /\ idOf[2] = 0 /\ closeCalls[2] # <<>>
  /\ idOf[3] = 2 /\ 3 \in Members

\* The handshakes so far that passed the origin and key checks.
ValidHandshakes ==
  {h \in 1..handshakes :
     closeCalls[h] = <<>> \/ Head(closeCalls[h]) \notin {CodeOrigin, CodeInvalidKey}}

\* C16: after N valid admissions, N <= maxClients, with no disconnect in
\* between (no close event handled, no stop), the registry holds exactly N
\* clients, one for each of these handshakes.
C16_CountIsAdmissions ==
  (/\ ~stopped
   /\ \A h \in Conn : readyState[h] # "CLOSED"
   /\ Cardinality(ValidHandshakes) <= maxClients)
  => /\ getClientCount = Cardinality(ValidHandshakes)
     /\ Members = ValidHandshakes
     /\ \A i, j \in DOMAIN clients : clients[i].ws = clients[j].ws => i = j

\* Two valid admissions fill a registry of two, with a handshake rejected
\* for its key between them.
C16_Witness ==
  /\ ~stopped
  /\ maxClients = 2
  /\ getClientCount = 2
  /\ Members = {1, 3}
  /\ closeCalls[2] = <<CodeInvalidKey>>
  /\ \A h \in Conn : readyState[h] # "CLOSED"

\* C17 as claimed: with an API key configured, a handshake that presents
\* another key or none is rejected with the invalid-key code.
C17_BadKeyAlwaysKeyCode ==
  [][\A origin \in Origins, key \in Keys, clientName \in Names :
       (/\ apiKey # Empty
        /\ key # apiKey
        /\ handshakes' = NextSocket
        /\ handleConnection(origin, key, clientName))
       => closeCalls'[NextSocket] = <<CodeInvalidKey>>]_vars

\* C17 as amended: with an API key configured, a handshake that presents
\* another key or none is rejected and its socket is never registered, then
\* or later; its close code is the invalid-key code unless origin validation
\* is on and the origin is absent or not allowed, in which case it is the
\* origin code.
C17_BadKeyNeverRegistered ==
  [][/\ \A origin \in Origins, key \in Keys, clientName \in Names :
          (/\ apiKey # Empty
           /\ key # apiKey
           /\ handshakes' = NextSocket
           /\ handleConnection(origin, key, clientName))
          => /\ clients' = clients
             /\ clientCounter' = clientCounter
             /\ idOf'[NextSocket] = 0
             /\ NextSocket \notin listening'
             /\ closeCalls'[NextSocket] =
                  << IF validateOrigin /\ (origin = Empty \/ ~isOriginAllowed(origin))
                     THEN CodeOrigin
                     ELSE CodeInvalidKey >>
     /\ \A h \in 1..handshakes :
          idOf[h] = 0 => (idOf'[h] = 0 /\ h \notin MembersAfter /\ h \notin listening')]_vars

\* A handshake without key and one with a wrong key were each closed with
\* the invalid-key code, a third with the right key was admitted after them,
\* and the rejected ones are not registered.
C17_Witness ==
  /\ apiKey = KeyGood
  /\ closeCalls[1] = <<CodeInvalidKey>>
  /\ closeCalls[2] = <<CodeInvalidKey>>
  /\ Members = {3}
  /\ idOf[1] = 0 /\ idOf[2] = 0

\* C18: with an empty configured API key the key check is off: whatever key
\* a handshake presents (a key, another key, none), its outcome is the one
\* it has with any other presented key, all else equal.
C18_EmptyKeyDisablesCheck ==
  [][\A origin \in Origins, key \in Keys, clientName \in Names :
       (/\ apiKey = Empty
        /\ handshakes' = NextSocket
        /\ handleConnection(origin, key, clientName))
       => /\ \A other \in Keys : handleConnection(origin, other, clientName)
          /\ closeCalls'[NextSocket] # <<CodeInvalidKey>>]_vars

\* No key is configured and origins are not validated: the first handshake
\* was admitted, the second turned away for capacity, none for its key.
C18_Witness ==
  /\ apiKey = Empty
  /\ ~validateOrigin
  /\ Members = {1}
  /\ closeCalls[2] = <<CodeCapacity>>
  /\ \A h \in Conn : CodeInvalidKey \notin Range(closeCalls[h])

\* C19: with origin validation on and no allowed origin, every handshake is
\* rejected with the origin code, whatever origin header (or none) and key
\* it presents: nobody is ever registered and every socket so far has been
\* closed with that code and nothing else.
C19_NoAllowedOriginRejectsAll ==
  (validateOrigin /\ allowedOrigins = <<>>)
  => /\ clients = <<>>
     /\ clientCounter = 0
     /\ listening = {}
     /\ \A h \in 1..handshakes : closeCalls[h] = <<CodeOrigin>> /\ sent[h] = <<>>

\* With a key configured, validation on and no allowed origin, three
\* handshakes have come and each was closed with the origin code.
C19_Witness ==
  /\ validateOrigin
  /\ allowedOrigins = <<>>
  /\ apiKey = KeyGood
  /\ handshakes = 3
  /\ \A h \in 1..3 : closeCalls[h] = <<CodeOrigin>>

\* The wildcard match as C20 states it: the origin ends with ".domain" and
\* a non-empty label stands before that dot.
LabelledSubdomain(allowedOrigin, origin) ==
  /\ StartsWith(allowedOrigin, <<"*", ".">>)
  /\ LET dotDomain == SubstringFrom(allowedOrigin, 1) IN
       /\ EndsWith(origin, dotDomain)
       /\ Len(origin) > Len(dotDomain)
       /\ origin[Len(origin) - Len(dotDomain)] # "."

\* C20: with origin validation on, a handshake is admitted only if its
\* origin equals an allowed entry or is a labelled subdomain of a wildcard
\* entry; the bare domain and an origin that only ends with the characters
\* of the domain are rejected.
C20_WildcardNeedsLabelBoundary ==
  [][\A origin \in Origins, key \in Keys, clientName \in Names :
       (/\ validateOrigin
        /\ handshakes' = NextSocket
        /\ NextSocket \in MembersAfter
        /\ handleConnection(origin, key, clientName))
       => \E i \in DOMAIN allowedOrigins :
            \/ allowedOrigins[i] = origin
            \/ LabelledSubdomain(allowedOrigins[i], origin)]_vars

\* C21: a rejected handshake (origin, key or capacity) changes nothing of
\* the relay state: the registry with every client's heartbeat fields and
\* the id counter stay as they were, no socket is sent anything (no welcome,
\* no join notice), and the rejected socket gets no handlers, then or later,
\* so no payload of it is ever handled or relayed.
C21_RejectionChangesNothing ==
  [][/\ (handshakes' = NextSocket /\ closeCalls'[NextSocket] # <<>>)
        => /\ clients' = clients
           /\ clientCounter' = clientCounter
           /\ sent' = sent
           /\ hbLog' = hbLog
           /\ listening' = listening
           /\ idOf' = idOf
           /\ \A h \in Conn \ {NextSocket} :
                readyState'[h] = readyState[h] /\ closeCalls'[h] = closeCalls[h]
     /\ \A h \in 1..handshakes :
          idOf[h] = 0
          => /\ h \notin listening'
             /\ sent'[h] = <<>>
             /\ \A data \in Payloads : ~handleMessage(h, data)]_vars

\* One client is registered and was sent its welcome only; after it three
\* handshakes were rejected, for origin, key and capacity.
C21_Witness ==
  /\ Members = {1}
  /\ clientCounter = 1
  /\ Len(sent[1]) = 1
  /\ \E h1, h2, h3 \in Conn :
       /\ closeCalls[h1] = <<CodeOrigin>>
       /\ closeCalls[h2] = <<CodeInvalidKey>>
       /\ closeCalls[h3] = <<CodeCapacity>>
  /\ \A h \in 2..4 : sent[h] = <<>> /\ h \notin listening

\* Why handleConnection turns a handshake away, by its checks in order.
OriginFails(origin) == validateOrigin /\ (origin = Empty \/ ~isOriginAllowed(origin))
KeyFails(key) == apiKey # Empty /\ key # apiKey

\* C22: the four closing causes (origin missing or not allowed, invalid key,
\* capacity reached, heartbeat timeout) use pairwise distinct close codes:
\* the code a handshake is rejected with tells which check failed, a sweep
\* closes with the timeout code only, and that code is none of the three
\* admission codes.
C22_CloseCodesDistinct ==
  [][/\ Cardinality({CodeOrigin, CodeInvalidKey, CodeCapacity, CodeTimeout}) = 4
     /\ \A origin \in Origins, key \in Keys, clientName \in Names :
          (/\ handshakes' = NextSocket
           /\ closeCalls'[NextSocket] # <<>>
           /\ handleConnection(origin, key, clientName))
          => LET code == closeCalls'[NextSocket][1] IN
             /\ Len(closeCalls'[NextSocket]) = 1
             /\ code = CodeOrigin <=> OriginFails(origin)
             /\ code = CodeInvalidKey <=> (~OriginFails(origin) /\ KeyFails(key))
             /\ code = CodeCapacity
                  <=> (~OriginFails(origin) /\ ~KeyFails(key) /\ Len(clients) >= maxClients)
             /\ code # CodeTimeout
     /\ \A h \in Conn :
          (ticks' = ticks + 1 /\ closeCalls'[h] # closeCalls[h])
          => /\ closeCalls'[h] = Append(closeCalls[h], CodeTimeout)
             /\ Last(closeCalls'[h]) \notin {CodeOrigin, CodeInvalidKey, CodeCapacity}]_vars

\* A client was closed for ping timeout and, of the handshakes after it,
\* two were rejected for different causes: three different codes are in use.
C22_Witness ==
  /\ closeCalls[1] = <<CodeTimeout>>
  /\ \E h1, h2 \in Conn :
       /\ closeCalls[h1] # <<>> /\ closeCalls[h2] # <<>>
       /\ Cardinality({CodeTimeout, closeCalls[h1][1], closeCalls[h2][1]}) = 3

\* The registry entry of socket h after the step.
EntryAfter(h) == clients'[CHOOSE i \in DOMAIN clients' : clients'[i].ws = h]

\* C23: a handshake admitted without a name parameter is registered under
\* the display name "client-{id}", where id is the id of its own registry
\* entry; its handlers and its welcome use the same name and id.
C23_DefaultNameUsesOwnId ==
  [][\A origin \in Origins, key \in Keys :
       (/\ handshakes' = NextSocket
        /\ NextSocket \in MembersAfter
        /\ handleConnection(origin, key, Empty))
       => /\ EntryAfter(NextSocket).name
               = <<"c", "l", "i", "e", "n", "t", "-">> \o Digits(EntryAfter(NextSocket).id)
          /\ EntryAfter(NextSocket).id = clientCounter'
          /\ nameOf'[NextSocket] = EntryAfter(NextSocket).name
          /\ idOf'[NextSocket] = EntryAfter(NextSocket).id
          /\ \A i \in DOMAIN clients : clients[i].id # EntryAfter(NextSocket).id]_vars

\* The first client has gone; the only client of the registry is the second
\* admitted one, under the name "client-2".
C23_Witness ==
  /\ Len(clients) = 1
  /\ clients[1].id = 2
  /\ clients[1].name = <<"c", "l", "i", "e", "n", "t", "-", "2">>
  /\ readyState[1] = "CLOSED"

\* The frame is a welcome.
IsWelcome(frame) == frame.type = "system" /\ frame.message[1] = "Connected as"

\* C24: every admitted connection is sent exactly one welcome, naming its
\* display name and id; the welcome goes to that connection only, and it is
\* the first frame the connection is sent, before every relayed payload and
\* every other system notice.
C24_OneWelcomeFirst ==
  \A h \in Conn :
    /\ idOf[h] # 0
       => /\ sent[h] # <<>>
          /\ IsWelcome(sent[h][1])
          /\ sent[h][1].message = <<"Connected as", nameOf[h], idOf[h]>>
    /\ \A i \in DOMAIN sent[h] : IsWelcome(sent[h][i]) => (i = 1 /\ idOf[h] # 0)

\* The first client was sent its welcome, then the join notice of the
\* second, then a payload; the second was sent its own welcome only.
C24_Witness ==
  /\ Len(sent[1]) = 3
  /\ IsWelcome(sent[1][1]) /\ sent[1][1].message[3] = 1
  /\ sent[1][2].type = "system" /\ sent[1][2].message[1] = "has joined the bridge"
  /\ sent[1][3].type = "data"
  /\ Len(sent[2]) = 1
  /\ IsWelcome(sent[2][1]) /\ sent[2][1].message[3] = 2

\* C25: stop sends the shutdown notice to every client registered when it
\* is called and closes each of them, also those for which the send of the
\* notice fails, and leaves the registry empty.
C25_StopClosesEveryClient ==
  [][(~stopped /\ stopped')
     => /\ clients' = <<>>
        /\ \A h \in Members :
             /\ closeCalls'[h] = Append(closeCalls[h], NoCode)
             /\ readyState'[h] # "OPEN"
             /\ h \notin throwing
                => /\ OneMore(sent[h], sent'[h])
                   /\ Last(sent'[h]).type = "system"
                   /\ Last(sent'[h]).message = <<"Server shutting down">>]_vars

\* C26: removing an id that is not in the registry is a no-op: the close
\* event of a socket that is no longer registered (stop has cleared the
\* registry) leaves the registry and the id counter as they are; and for
\* every id, removing it twice gives what removing it once gives.
C26_RemoveAbsentIsNoOp ==
  [][/\ \A h \in Conn :
          (readyState[h] # "CLOSED" /\ readyState'[h] = "CLOSED" /\ h \notin Members)
          => clients' = clients /\ clientCounter' = clientCounter
     /\ \A id \in 0..MaxEvents :
          /\ Remove(Remove(clients, id), id) = Remove(clients, id)
          /\ (\A i \in DOMAIN clients : clients[i].id # id) => Remove(clients, id) = clients]_vars

\* After stop cleared the registry, the close event of a client it closed
\* was handled.
C26_Witness ==
  /\ stopped
  /\ clients = <<>>
  /\ clientCounter = 2
  /\ \E h \in Conn :
       /\ idOf[h] # 0
       /\ closeCalls[h] = <<NoCode>>
       /\ readyState[h] = "CLOSED"

\* A notice to broadcast.
Notice == SystemMessage(<<"notice">>, now)

\* C27: broadcastSystemMessage without excludeClientId sends the notice to
\* every client of the registry, and with the id of a client to every
\* client but that one; ids start at 1, so no registered client has an id
\* that the broadcast reads as "no exclusion".
C27_BroadcastExcludesOnlyNamed ==
  /\ \A h \in Conn :
       broadcastSystemMessage(sent, clients, Notice, Undefined)[h]
         = IF h \in Members THEN Append(sent[h], Notice) ELSE sent[h]
  /\ \A i \in DOMAIN clients : \A h \in Conn :
       broadcastSystemMessage(sent, clients, Notice, clients[i].id)[h]
         = IF h \in Members \ {clients[i].ws} THEN Append(sent[h], Notice) ELSE sent[h]
  /\ \A i \in DOMAIN clients : clients[i].id >= 1 /\ ~Falsy(clients[i].id)

\* With announcements on, the first client was sent its welcome, the join
\* notice of the second and the leave notice of the second; the second was
\* sent its welcome and not its own join notice.
C27_Witness ==
  /\ announceConnections
  /\ Len(sent[1]) = 3
  /\ sent[1][2].type = "system" /\ sent[1][2].message[1] = "has joined the bridge"
  /\ sent[1][3].type = "system" /\ sent[1][3].message[1] = "has left the bridge"
  /\ Len(sent[2]) = 1
  /\ IsWelcome(sent[2][1])

\* How many entries a log gained in the step.
Gained(log, logAfter, h) == Len(logAfter[h]) - Len(log[h])
OneIf(b) == IF b THEN 1 ELSE 0

\* C28: every enumeration of the registry (relay, system broadcast, heartbeat
\* sweep, stop) visits each client registered when it starts exactly once,
\* in registry order, also when a 'close' or a 'connection' is handled
\* while it runs; in the handlers, each registered client gets exactly one
\* frame, ping or timeout, or close, and no other socket gets any.
C28_EnumerationVisitsEachOnce ==
  [][/\ \A k \in 0..Len(clients) : \A op \in RegistryOps :
          forEach(clients, k, op) = clients
     /\ ticks' # ticks
          => \A h \in Conn : Gained(hbLog, hbLog', h) = OneIf(h \in Members)
     /\ (~stopped /\ stopped')
          => \A h \in Conn :
               /\ Gained(sent, sent', h) = OneIf(h \in Members)
               /\ Gained(closeCalls, closeCalls', h) = OneIf(h \in Members)
     /\ (/\ announceConnections
         /\ handshakes' = handshakes
         /\ \E h \in Conn : readyState[h] # "CLOSED" /\ readyState'[h] = "CLOSED")
          => \A r \in Conn : Gained(sent, sent', r) = OneIf(r \in MembersAfter)
     /\ (/\ announceConnections
         /\ handshakes' = NextSocket
         /\ clientCounter' # clientCounter)
          => \A r \in Conn : Gained(sent, sent', r) = OneIf(r \in MembersAfter)
     /\ UNCHANGED <<handshakes, clients, ticks, stopped, hbLog, readyState>>
          => \A s \in Conn : \A data \in Payloads :
               (handleMessage(s, data) /\ Len(data) <= maxMessageSize)
               => \A r \in Conn : Gained(sent, sent', r) = OneIf(r \in Members \ {s})]_vars

\* The server was stopped with two clients registered, and each of them was
\* sent the shutdown notice once and closed once.
C28_Witness ==
  /\ stopped
  /\ \A h \in {1, 2} :
       /\ idOf[h] # 0
       /\ closeCalls[h] = <<NoCode>>
       /\ Last(sent[h]).type = "system"
       /\ Last(sent[h]).message = <<"Server shutting down">>
       /\ Cardinality({i \in DOMAIN sent[h] : sent[h][i] = Last(sent[h])}) = 1

\* C29: in one heartbeat sweep every registered client is handled exactly
\* once and is either closed for timeout or sent a ping (ws.ping is called
\* for it), never both and never neither; a client that is not closed for
\* timeout is sent a ping and ends the sweep with awaitingPong set and
\* lastPing equal to the time of the sweep.
C29_SweepClosesOrPings ==
  [][ticks' # ticks
     => \A i \in DOMAIN clients :
          LET h == clients[i].ws
              closed == /\ Gained(closeCalls, closeCalls', h) = 1
                        /\ Last(closeCalls'[h]) = CodeTimeout
              pinged == Last(hbLog'[h]) = <<"ping", now'>>
          IN /\ Gained(hbLog, hbLog', h) = 1
             /\ closed # pinged
             /\ ~closed => /\ pinged
                           /\ clients'[i].awaitingPong
                           /\ clients'[i].lastPing = now']_vars

\* One sweep closed the first client for timeout, without a ping, and pinged
\* the second, which ends it awaiting a pong with lastPing at its time.
C29_Witness ==
  /\ Members = {1, 2}
  /\ hbLog[1] # <<>> /\ Last(hbLog[1]) = <<"timeout", now>>
  /\ closeCalls[1] = <<CodeTimeout>>
  /\ <<"ping", now>> \notin Range(hbLog[1])
  /\ hbLog[2] = <<<<"ping", now>>>>
  /\ closeCalls[2] = <<>>
  /\ \A i \in DOMAIN clients :
       clients[i].ws = 2 => clients[i].awaitingPong /\ clients[i].lastPing = now

\* C30: the size limit is inclusive: a payload of exactly maxMessageSize
\* bytes (as every payload within the limit) is relayed to every other
\* client and brings no size-limit notice; a payload is dropped, and its
\* sender told, only when it is longer than maxMessageSize.
C30_LimitInclusive ==
  [][UNCHANGED <<handshakes, clients, ticks, stopped, hbLog, readyState>>
     => \A s \in Conn : \A data \in Payloads :
          handleMessage(s, data)
          => /\ Len(data) <= maxMessageSize
                => \A r \in Conn :
                     sent'[r] = IF r \in Members /\ idOf[r] # idOf[s]
                                THEN Append(sent[r], RelayedFrame(Utf8Decode(data)))
                                ELSE sent[r]
             /\ (\E r \in Conn \ {s} : r \in Members /\ sent'[r] = sent[r])
                => Len(data) > maxMessageSize]_vars

\* A client was sent a relayed payload of exactly maxMessageSize
\* characters, and no client has been told of an oversized payload.
C30_Witness ==
  /\ \E r \in Members :
       /\ Last(sent[r]).type = "data"
       /\ Len(Last(sent[r]).message) = maxMessageSize
       /\ Last(sent[r]).message = Utf8Decode(Filler(maxMessageSize))
  /\ \A h \in Conn : ~ToldOversized(h)

\* The join and leave notices of the client named `name`.
JoinNotice(name, t) == SystemMessage(<<"has joined the bridge", name>>, t)
LeaveNotice(name, t) == SystemMessage(<<"has left the bridge", name>>, t)

\* C31: with announcements on, the join notice of an admitted client is
\* sent to every client registered before it and not to the joiner (which
\* is sent its welcome only), and the leave notice of a closed client is
\* sent to every client still registered after its removal and to no other
\* socket, the leaver included.
C31_NoticesReachOthersOnly ==
  [][announceConnections
     => /\ (handshakes' = NextSocket /\ clients' # clients)
             => LET j == NextSocket IN
                /\ j \in MembersAfter \ Members
                /\ \A r \in Conn \ {j} :
                     sent'[r] = IF r \in Members
                                THEN Append(sent[r], JoinNotice(nameOf'[j], now))
                                ELSE sent[r]
                /\ OneMore(sent[j], sent'[j])
                /\ IsWelcome(Last(sent'[j]))
        /\ \A h \in Conn :
             (handshakes' = handshakes /\ readyState[h] # "CLOSED" /\ readyState'[h] = "CLOSED")
             => /\ h \notin MembersAfter
                /\ \A r \in Conn :
                     sent'[r] = IF r \in MembersAfter
                                THEN Append(sent[r], LeaveNotice(nameOf[h], now))
                                ELSE sent[r]]_vars

\* With announcements on, a second client joined and left and a third
\* joined: the first was sent its welcome and the three notices, the third
\* its welcome only.
C31_Witness ==
  /\ announceConnections
  /\ Members = {1, 3}
  /\ Len(sent[1]) = 4
  /\ sent[1][2] = JoinNotice(nameOf[2], sent[1][2].timestamp)
  /\ sent[1][3] = LeaveNotice(nameOf[2], sent[1][3].timestamp)
  /\ sent[1][4] = JoinNotice(nameOf[3], sent[1][4].timestamp)
  /\ Len(sent[3]) = 1
  /\ IsWelcome(sent[3][1])

\* The close code admission answers a handshake with: that of the first
\* check that fails, in the order origin, API key, capacity (NoCode: none
\* fails).
FirstFailing(origin, key) ==
  IF OriginFails(origin) THEN CodeOrigin
  ELSE IF KeyFails(key) THEN CodeInvalidKey
  ELSE IF Len(clients) >= maxClients THEN CodeCapacity
  ELSE NoCode

\* C32: admission makes its checks in the order origin, API key, capacity
\* and stops at the first that fails: a rejected handshake gets exactly one
\* close call, with the code of the first failing check in that order, and
\* is not registered; an admitted handshake gets no close call.
C32_FirstFailingCheckDecides ==
  [][\A origin \in Origins, key \in Keys, clientName \in Names :
       (/\ handshakes' = NextSocket
        /\ handleConnection(origin, key, clientName))
       => LET code == FirstFailing(origin, key) IN
          /\ \A h \in Conn \ {NextSocket} : closeCalls'[h] = closeCalls[h]
          /\ IF code = NoCode
             THEN /\ closeCalls'[NextSocket] = <<>>
                  /\ readyState'[NextSocket] = "OPEN"
                  /\ NextSocket \in MembersAfter
             ELSE /\ closeCalls'[NextSocket] = <<code>>
                  /\ clients' = clients]_vars

\* A server that checks origins and keys, with one slot: the first
\* handshake was closed for its origin, the second for its key, the third
\* was admitted and never closed, the fourth was closed for capacity.
C32_Witness ==
  /\ validateOrigin /\ apiKey = KeyGood
  /\ closeCalls[1] = <<CodeOrigin>>
  /\ closeCalls[2] = <<CodeInvalidKey>>
  /\ closeCalls[3] = <<>> /\ Members = {3}
  /\ closeCalls[4] = <<CodeCapacity>>

\* The 'close' event of socket h is handled in the step.
CloseHandled(h) ==
  /\ handshakes' = handshakes
  /\ readyState[h] # "CLOSED"
  /\ readyState'[h] = "CLOSED"

\* C33: capacity is released by the 'close' event of a registered client
\* and by nothing else while the server runs: the 'close' of a member of a
\* full registry leaves one slot free, the registry stays below capacity
\* until a handshake is admitted, and a handshake with valid origin and key
\* is admitted exactly when the registry is below capacity; a sweep that
\* closes a client for timeout leaves it in the registry, and as long as
\* its 'close' has not been handled it holds its slot, so that a valid
\* handshake to a full registry is turned away for capacity.
C33_CloseEventFreesSlot ==
  [][/\ \A h \in Members :
          (CloseHandled(h) /\ Len(clients) = maxClients)
          => /\ Len(clients') = maxClients - 1
             /\ MembersAfter = Members \ {h}
     /\ Len(clients') > Len(clients) => handshakes' = NextSocket
     /\ (Len(clients') < Len(clients) /\ ~stopped')
          => \E h \in Members : CloseHandled(h) /\ MembersAfter = Members \ {h}
     /\ ticks' # ticks
          => /\ MembersAfter = Members
             /\ Len(clients') = Len(clients)
             /\ \A h \in Conn : TimeoutClosed(h)' /\ ~TimeoutClosed(h) => h \in MembersAfter
     /\ \A origin \in Origins, key \in Keys, clientName \in Names :
          (/\ handshakes' = NextSocket
           /\ ~OriginFails(origin)
           /\ ~KeyFails(key)
           /\ handleConnection(origin, key, clientName))
          => IF Len(clients) < maxClients
             THEN NextSocket \in MembersAfter /\ closeCalls'[NextSocket] = <<>>
             ELSE /\ clients' = clients
                  /\ closeCalls'[NextSocket] = <<CodeCapacity>>]_vars

\* A registry of two is full; one of its clients was closed for timeout by
\* a sweep and its 'close' has not been handled, and a handshake that came
\* after was turned away for capacity.
C33_Witness ==
  /\ Len(clients) = maxClients
  /\ Members = {1, 2}
  /\ \E h \in Members : TimeoutClosed(h) /\ readyState[h] = "CLOSING"
  /\ closeCalls[3] = <<CodeCapacity>>

\* Every sweep so far came exactly heartbeatInterval after the one before
\* (the clock of the model moves with the sweeps only).
TicksExact == now = ticks * heartbeatInterval

====
